---- MODULE Spec2Model ----
(***************************************************************************)
(* The two example scripts of the repository, examples/timeseries.py and   *)
(* examples/example_thredds.py, as straight-line programs run by the       *)
(* Python interpreter: one statement at a time, top to bottom, the first   *)
(* uncaught exception ending the run.                                      *)
(*                                                                         *)
(* The remote dataset is the environment: whether the server answers,      *)
(* which variables the dataset holds, the sizes of its time, depth, Y and  *)
(* X dimensions and its values are chosen in Init and never change.        *)
(*                                                                         *)
(* Numbers: coordinates are in hundredths of a degree, data values in      *)
(* tenths of a unit, and np.sqrt rounds down to a tenth (ISqrt).           *)
(*                                                                         *)
(* timeseries.py reads the name xroms at line 60 and never imports it, so  *)
(* every run that gets there ends with NameError; the statements after it  *)
(* are modelled as written and are never reached.                          *)
(***************************************************************************)
EXTENDS Integers, Sequences, FiniteSets, TLC

VARIABLES script, remote, pc, status, error, ns, drawn, trace

vars == <<script, remote, pc, status, error, ns, drawn, trace>>

----------------------------------------------------------------------------
(* Bounds of the model *)

\* how many entries a dimension has beyond the largest index a script names
MaxExtra == 1
\* number of depth levels of a dataset that has any
MaxDepth == 2
\* the datasets differ in their values by a seed in 0..MaxSeed
MaxSeed == 1

(* Constants of the scripts *)

\* timeseries.py line 46: X=1000, Y=1000
HardX == 1000
HardY == 1000
\* timeseries.py lines 46, 111, 118, 137, 143: slice(0, 100), [0:100, ...]
SliceStart == 0
SliceStop == 100
\* the uppermost level: depth=0, [.., 0, ..]
SurfaceDepth == 0
\* timeseries.py line 77: ds.temperature[0, 0, :, :]
FirstTime == 0
\* timeseries.py line 53: loc = [12.72, 68.35], in hundredths of a degree
LocLon == 1272
LocLat == 6835
\* example_thredds.py line 34: time=-1
NkTime == -1

----------------------------------------------------------------------------
(* The remote dataset *)

TsVars == {"temperature", "salinity", "lon", "lat", "u_eastward",
           "v_northward", "Uwind_eastward", "Vwind_northward"}
NkVars == {"grid_mapping", "v_northward"}
AllVars == TsVars \cup NkVars

\* every variable present, or exactly one of them missing
VarSets == {AllVars} \cup {AllVars \ {v} : v \in AllVars}

TSizes == {0, 1, SliceStop, SliceStop + MaxExtra}
DSizes == {0, MaxDepth}
XSizes == {HardX, HardX + MaxExtra}
YSizes == {HardY, HardY + MaxExtra}

Remotes == [reachable : BOOLEAN, vars : VarSets, T : TSizes, D : DSizes,
            Y : YSizes, X : XSizes, seed : 0..MaxSeed]

\* what xr.open_dataset(url) returns: the dataset as the server holds it
Dataset(r) == [vars |-> r.vars, T |-> r.T, D |-> r.D, Y |-> r.Y, X |-> r.X,
               seed |-> r.seed]

VarCode(var) ==
  CASE var = "temperature" -> 0
    [] var = "salinity" -> 1
    [] var = "u_eastward" -> 2
    [] var = "v_northward" -> 4
    [] var = "Uwind_eastward" -> 5
    [] var = "Vwind_northward" -> 7
    [] OTHER -> 8

\* the value of a variable at (time, depth, y, x), in tenths
Val(d, var, t, dep, y, x) ==
  ((d.seed + VarCode(var) + 3 * t + 5 * dep + y + 2 * x) % 9) - 4

\* the curvilinear grid: ds.lon[y, x] and ds.lat[y, x], in hundredths
Lon(d, y, x) == 300 + 2 * x + (y \div 4) + d.seed
Lat(d, y, x) == 5800 + y + (x \div 8) + d.seed

----------------------------------------------------------------------------
(* Indexing, as numpy and xarray do it *)

\* variant: a negative index is taken as the first entry
IntIndexClamp(i, n) == IF i < 0 THEN 0 ELSE i

\* an integer index into a dimension of n entries: a negative index counts
\* from the end; the result is outside 0..n-1 when the index is out of range
IntIndex(i, n) == IF i < 0 THEN i + n ELSE i

InRange(i, n) == IntIndex(i, n) >= 0 /\ IntIndex(i, n) < n

\* one end of a slice, clamped into 0..n (slice.indices)
SliceEnd(s, n) ==
  IF s < 0 THEN (IF s + n < 0 THEN 0 ELSE s + n)
  ELSE (IF s > n THEN n ELSE s)

\* the indices slice(start, stop) selects of a dimension of n entries
SliceIndices(start, stop, n) ==
  LET lo == SliceEnd(start, n)
      hi == SliceEnd(stop, n)
  IN IF hi > lo THEN [i \in 1..(hi - lo) |-> lo + i - 1] ELSE <<>>

\* np.sqrt of a value in hundredths of a square unit, in tenths
ISqrt(n) == CHOOSE r \in 0..n : r * r <= n /\ (r + 1) * (r + 1) > n

Bind(n, name, val) ==
  [k \in DOMAIN n \cup {name} |-> IF k = name THEN val ELSE n[k]]

RECURSIVE BindAll(_, _, _)
BindAll(n, names, val) ==
  IF names = {} THEN n
  ELSE LET k == CHOOSE x \in names : TRUE
       IN BindAll(Bind(n, k, val), names \ {k}, val)

----------------------------------------------------------------------------
(* examples/timeseries.py *)

TsProgram == <<"import", "path", "open", "view", "quickplot", "loc",
               "lookup", "report", "map_axes", "map_field", "map_marker",
               "map_cosmetics", "ts_axes", "temperature", "salinity",
               "ts_title", "current_speed", "wind_speed", "speed_plot">>

\* the names each statement reads that it does not bind itself
TsReads(stmt) ==
  CASE stmt = "open" -> {"xr", "path"}
    [] stmt = "view" -> {"ds"}
    [] stmt = "quickplot" -> {"ds"}
    [] stmt = "lookup" -> {"xroms", "ds", "loc"}
    [] stmt = "report" -> {"loc", "ds", "y_idx", "x_idx"}
    [] stmt = "map_axes" -> {"plt", "ccrs"}
    [] stmt = "map_field" -> {"ds", "ax", "ccrs"}
    [] stmt = "map_marker" -> {"ax", "ds", "y_idx", "x_idx", "ccrs"}
    [] stmt = "map_cosmetics" -> {"ax", "fig", "ccrs", "cfeature",
                                  "LONGITUDE_FORMATTER", "LATITUDE_FORMATTER"}
    [] stmt = "ts_axes" -> {"plt"}
    [] stmt = "temperature" -> {"ds", "ax", "y_idx", "x_idx"}
    [] stmt = "salinity" -> {"ds", "ax", "y_idx", "x_idx"}
    [] stmt = "ts_title" -> {"ds", "ax", "ax1", "fig", "y_idx", "x_idx"}
    [] stmt = "current_speed" -> {"np", "ds", "y_idx", "x_idx"}
    [] stmt = "wind_speed" -> {"np", "ds", "y_idx", "x_idx"}
    [] stmt = "speed_plot" -> {"plt", "current_speed", "wind_speed"}
    [] OTHER -> {}

\* the names each statement binds
TsWrites(stmt) ==
  CASE stmt = "import" -> {"np", "plt", "ccrs", "cfeature", "xr",
                           "LONGITUDE_FORMATTER", "LATITUDE_FORMATTER"}
    [] stmt = "path" -> {"path"}
    [] stmt = "open" -> {"ds"}
    [] stmt = "loc" -> {"loc"}
    [] stmt = "lookup" -> {"y_idx", "x_idx"}
    [] stmt = "map_axes" -> {"fig", "ax"}
    [] stmt = "map_cosmetics" -> {"gl", "land", "coastline", "borders"}
    [] stmt = "ts_axes" -> {"fig", "ax"}
    [] stmt = "salinity" -> {"ax1"}
    [] stmt = "current_speed" -> {"current_speed"}
    [] stmt = "wind_speed" -> {"wind_speed"}
    [] stmt = "speed_plot" -> {"fig", "ax", "line0", "ax1", "line1", "lines",
                               "labels"}
    [] OTHER -> {}

\* squared distance of grid point (y, x) to the target
Dist2(d, y, x, lon0, lat0) ==
  (Lon(d, y, x) - lon0) * (Lon(d, y, x) - lon0)
    + (Lat(d, y, x) - lat0) * (Lat(d, y, x) - lat0)

\* xroms.argsel2d(ds.lon, ds.lat, lon0, lat0): the (row, column) of the grid
\* point closest to the target, the first such point in row-major order
ArgSel2d(d, lon0, lat0) ==
  LET pts == (0..(d.Y - 1)) \X (0..(d.X - 1))
      best == {p \in pts : \A q \in pts :
                 Dist2(d, p[1], p[2], lon0, lat0)
                   <= Dist2(d, q[1], q[2], lon0, lat0)}
  IN CHOOSE p \in best : \A q \in best :
       p[1] * d.X + p[2] <= q[1] * d.X + q[2]

\* var[0:100, 0, y, x], or var[0:100, y, x] for a variable without depth
Series(d, var, dep, y, x) ==
  LET times == SliceIndices(SliceStart, SliceStop, d.T)
  IN [times |-> times,
      values |-> [i \in 1..Len(times) |-> Val(d, var, times[i], dep, y, x)]]

\* np.sqrt(a**2 + b**2), elementwise over two series of the same window
Speed(a, b) ==
  [times |-> a.times,
   values |-> [i \in 1..Len(a.values) |->
                 ISqrt(a.values[i] * a.values[i] + b.values[i] * b.values[i])]]

\* whether one of the variables a statement names is not in the dataset
Missing(d, names) == names \ d.vars # {}

\* the exception the statement raises in namespace n, or "none"
TsRaises(stmt, n, r) ==
  IF ~(TsReads(stmt) \subseteq DOMAIN n) THEN "NameError"
  ELSE CASE stmt = "open" ->
              IF r.reachable THEN "none" ELSE "OSError"
         [] stmt = "quickplot" ->
              IF Missing(n["ds"], {"temperature"}) THEN "AttributeError"
              ELSE IF /\ InRange(HardX, n["ds"].X)
                      /\ InRange(HardY, n["ds"].Y)
                      /\ InRange(SurfaceDepth, n["ds"].D)
                   THEN "none" ELSE "IndexError"
         [] stmt \in {"lookup", "report", "map_marker", "ts_title"} ->
              IF Missing(n["ds"], {"lon", "lat"}) THEN "AttributeError"
              ELSE "none"
         [] stmt = "map_field" ->
              IF Missing(n["ds"], {"temperature"}) THEN "AttributeError"
              ELSE IF /\ InRange(FirstTime, n["ds"].T)
                      /\ InRange(SurfaceDepth, n["ds"].D)
                   THEN "none" ELSE "IndexError"
         [] stmt \in {"temperature", "salinity"} ->
              IF Missing(n["ds"], {stmt}) THEN "AttributeError"
              ELSE IF /\ InRange(SurfaceDepth, n["ds"].D)
                      /\ InRange(n["y_idx"], n["ds"].Y)
                      /\ InRange(n["x_idx"], n["ds"].X)
                   THEN "none" ELSE "IndexError"
         [] stmt = "current_speed" ->
              IF Missing(n["ds"], {"u_eastward", "v_northward"})
              THEN "AttributeError"
              ELSE IF /\ InRange(SurfaceDepth, n["ds"].D)
                      /\ InRange(n["y_idx"], n["ds"].Y)
                      /\ InRange(n["x_idx"], n["ds"].X)
                   THEN "none" ELSE "IndexError"
         [] stmt = "wind_speed" ->
              IF Missing(n["ds"], {"Uwind_eastward", "Vwind_northward"})
              THEN "AttributeError"
              ELSE IF /\ InRange(n["y_idx"], n["ds"].Y)
                      /\ InRange(n["x_idx"], n["ds"].X)
                   THEN "none" ELSE "IndexError"
         [] OTHER -> "none"

\* the namespace after a statement that raised nothing
TsExec(stmt, n, r) ==
  CASE stmt = "open" -> Bind(n, "ds", Dataset(r))
    [] stmt = "loc" -> Bind(n, "loc", <<LocLon, LocLat>>)
    [] stmt = "lookup" ->
         LET p == ArgSel2d(n["ds"], n["loc"][1], n["loc"][2])
         IN Bind(Bind(n, "y_idx", p[1]), "x_idx", p[2])
    [] stmt = "current_speed" ->
         Bind(n, "current_speed",
              Speed(Series(n["ds"], "u_eastward", SurfaceDepth,
                           n["y_idx"], n["x_idx"]),
                    Series(n["ds"], "v_northward", SurfaceDepth,
                           n["y_idx"], n["x_idx"])))
    [] stmt = "wind_speed" ->
         Bind(n, "wind_speed",
              Speed(Series(n["ds"], "Uwind_eastward", 0,
                           n["y_idx"], n["x_idx"]),
                    Series(n["ds"], "Vwind_northward", 0,
                           n["y_idx"], n["x_idx"])))
    [] OTHER -> BindAll(n, TsWrites(stmt), "object")

\* what a statement that raised nothing puts on a figure
TsDraw(stmt, n) ==
  CASE stmt = "quickplot" ->
         <<[stmt |-> stmt, kind |-> "series", var |-> "temperature",
            depth |-> IntIndex(SurfaceDepth, n["ds"].D),
            y |-> IntIndex(HardY, n["ds"].Y),
            x |-> IntIndex(HardX, n["ds"].X),
            data |-> Series(n["ds"], "temperature", SurfaceDepth,
                            HardY, HardX)]>>
    [] stmt = "map_field" ->
         <<[stmt |-> stmt, kind |-> "field", var |-> "temperature",
            depth |-> IntIndex(SurfaceDepth, n["ds"].D),
            time |-> IntIndex(FirstTime, n["ds"].T)]>>
    [] stmt = "map_marker" ->
         <<[stmt |-> stmt, kind |-> "point",
            y |-> n["y_idx"], x |-> n["x_idx"],
            lon |-> Lon(n["ds"], n["y_idx"], n["x_idx"]),
            lat |-> Lat(n["ds"], n["y_idx"], n["x_idx"])]>>
    [] stmt \in {"temperature", "salinity"} ->
         <<[stmt |-> stmt, kind |-> "series", var |-> stmt,
            depth |-> IntIndex(SurfaceDepth, n["ds"].D),
            y |-> n["y_idx"], x |-> n["x_idx"],
            data |-> Series(n["ds"], stmt, SurfaceDepth,
                            n["y_idx"], n["x_idx"])]>>
    [] stmt = "ts_title" ->
         <<[stmt |-> stmt, kind |-> "point",
            y |-> n["y_idx"], x |-> n["x_idx"],
            lon |-> Lon(n["ds"], n["y_idx"], n["x_idx"]),
            lat |-> Lat(n["ds"], n["y_idx"], n["x_idx"])]>>
    [] stmt = "speed_plot" ->
         <<[stmt |-> stmt, kind |-> "derived", var |-> "current_speed",
            data |-> n["current_speed"]],
           [stmt |-> stmt, kind |-> "derived", var |-> "wind_speed",
            data |-> n["wind_speed"]]>>
    [] OTHER -> <<>>

----------------------------------------------------------------------------
(* examples/example_thredds.py *)

NkProgram == <<"import", "open", "print_nk", "grid_mapping", "crs",
               "print_crs", "ncrs", "axes", "v_plot", "scatter", "legend",
               "show">>

NkReads(stmt) ==
  CASE stmt = "open" -> {"xr"}
    [] stmt = "print_nk" -> {"nk"}
    [] stmt = "grid_mapping" -> {"nk"}
    [] stmt = "crs" -> {"pyproj", "gm"}
    [] stmt = "print_crs" -> {"nk_crs"}
    [] stmt = "ncrs" -> {"ccrs"}
    [] stmt = "axes" -> {"plt", "ncrs"}
    [] stmt = "v_plot" -> {"nk", "ncrs"}
    [] stmt = "scatter" -> {"plt", "ccrs"}
    [] stmt = "legend" -> {"plt"}
    [] stmt = "show" -> {"plt"}
    [] OTHER -> {}

NkWrites(stmt) ==
  CASE stmt = "import" -> {"xr", "_", "pyproj", "plt", "ccrs"}
    [] stmt = "open" -> {"nk"}
    [] stmt = "grid_mapping" -> {"gm"}
    [] stmt = "crs" -> {"nk_crs"}
    [] stmt = "ncrs" -> {"ncrs"}
    [] OTHER -> {}

\* nk.isel(time=-1, depth=0) is evaluated before .v_northward is looked up
NkRaises(stmt, n, r) ==
  IF ~(NkReads(stmt) \subseteq DOMAIN n) THEN "NameError"
  ELSE CASE stmt = "open" ->
              IF r.reachable THEN "none" ELSE "OSError"
         [] stmt = "grid_mapping" ->
              IF Missing(n["nk"], {"grid_mapping"}) THEN "KeyError"
              ELSE "none"
         [] stmt = "v_plot" ->
              IF ~(/\ InRange(NkTime, n["nk"].T)
                   /\ InRange(SurfaceDepth, n["nk"].D))
              THEN "IndexError"
              ELSE IF Missing(n["nk"], {"v_northward"})
                   THEN "AttributeError" ELSE "none"
         [] OTHER -> "none"

\* variant: the plot statement rebinds nk to its selection, nk = nk.isel(...)
NkExecRebind(stmt, n, r) ==
  CASE stmt = "open" -> Bind(n, "nk", Dataset(r))
    [] stmt = "v_plot" -> Bind(n, "nk", [n["nk"] EXCEPT !.T = 1, !.D = 1])
    [] OTHER -> BindAll(n, NkWrites(stmt), "object")

\* the namespace after a statement that raised nothing
NkExec(stmt, n, r) ==
  CASE stmt = "open" -> Bind(n, "nk", Dataset(r))
    [] OTHER -> BindAll(n, NkWrites(stmt), "object")

NkDraw(stmt, n) ==
  CASE stmt = "v_plot" ->
         <<[stmt |-> stmt, kind |-> "field", var |-> "v_northward",
            depth |-> IntIndex(SurfaceDepth, n["nk"].D),
            time |-> IntIndex(NkTime, n["nk"].T)]>>
    [] stmt = "scatter" ->
         <<[stmt |-> stmt, kind |-> "label", label |-> "Bergen"]>>
    [] OTHER -> <<>>

----------------------------------------------------------------------------
(* The interpreter *)

Program(s) == IF s = "timeseries" THEN TsProgram ELSE NkProgram

\* the name under which a script holds its dataset
Handle(s) == IF s = "timeseries" THEN "ds" ELSE "nk"

Init ==
  /\ script \in {"timeseries", "example_thredds"}
  /\ remote \in Remotes
  /\ pc = 1
  /\ status = "running"
  /\ error = "none"
  /\ ns = [k \in {} |-> "object"]
  /\ drawn = <<>>
  /\ trace = <<>>

\* variant: the exception is swallowed (try/except: pass) and the run goes on
FailSwallowed(e) ==
  /\ status' = IF pc + 1 > Len(Program(script)) THEN "done" ELSE "running"
  /\ error' = e
  /\ pc' = pc + 1
  /\ UNCHANGED <<ns, drawn>>

\* an exception nothing catches: the run ends at the statement that raised it
Fail(e) ==
  /\ status' = "failed"
  /\ error' = e
  /\ UNCHANGED <<pc, ns, drawn>>

\* variant: control skips a statement
NextPcSkip(p) == p + 2

\* the statement after the one at p
NextPc(p) == p + 1

\* the statement at pc completes
Advance ==
  /\ pc' = NextPc(pc)
  /\ status' = IF pc' > Len(Program(script)) THEN "done" ELSE "running"
  /\ error' = error

TsStep ==
  /\ script = "timeseries"
  /\ status = "running"
  /\ trace' = Append(trace, pc)
  /\ LET stmt == TsProgram[pc]
         e == TsRaises(stmt, ns, remote)
     IN IF e # "none" THEN Fail(e)
        ELSE /\ ns' = TsExec(stmt, ns, remote)
             /\ drawn' = drawn \o TsDraw(stmt, ns)
             /\ Advance
  /\ UNCHANGED <<script, remote>>

NkStep ==
  /\ script = "example_thredds"
  /\ status = "running"
  /\ trace' = Append(trace, pc)
  /\ LET stmt == NkProgram[pc]
         e == NkRaises(stmt, ns, remote)
     IN IF e # "none" THEN Fail(e)
        ELSE /\ ns' = NkExec(stmt, ns, remote)
             /\ drawn' = drawn \o NkDraw(stmt, ns)
             /\ Advance
  /\ UNCHANGED <<script, remote>>

Next == TsStep \/ NkStep

Spec == Init /\ [][Next]_vars

----------------------------------------------------------------------------
(* Vocabulary of the properties *)

\* the statement at position i of the trace ran to its end
Finished(i) == i \in DOMAIN trace /\ ~(i = Len(trace) /\ status = "failed")

Started(name) ==
  \E i \in DOMAIN trace : Program(script)[trace[i]] = name

Completed(name) ==
  \E i \in DOMAIN trace : Program(script)[trace[i]] = name /\ Finished(i)

Stopped == status # "running"

DrawnBy(name) == {i \in DOMAIN drawn : drawn[i].stmt = name}

\* the server answers, the dataset holds every variable the script names and
\* every index the script hard-codes lies within the grid
EnvOk ==
  /\ remote.reachable
  /\ IF script = "timeseries"
     THEN /\ TsVars \subseteq remote.vars
          /\ remote.X > HardX /\ remote.Y > HardY
          /\ remote.D > SurfaceDepth /\ remote.T > FirstTime
     ELSE /\ NkVars \subseteq remote.vars
          /\ remote.D > SurfaceDepth /\ remote.T >= 1

\* the time window of the series: indices 0 .. min(100, T) - 1
Window == 0..((IF remote.T < SliceStop THEN remote.T ELSE SliceStop) - 1)

\* v is the square root of n, rounded down to the unit
IsRoot(v, n) == v >= 0 /\ v * v <= n /\ n < (v + 1) * (v + 1)

----------------------------------------------------------------------------
(* C1: in timeseries.py, once the script has stopped in a sound environment, *)
(* current_speed[i] is the square root of u_eastward[i]^2 + v_northward[i]^2 *)
(* and wind_speed[i] that of Uwind_eastward[i]^2 + Vwind_northward[i]^2, for  *)
(* every index i of the time window, the components taken at time index i    *)
(* and grid point (y_idx, x_idx); the result is never negative.               *)
SpeedIsMagnitude ==
  (script = "timeseries" /\ EnvOk /\ Stopped) =>
    /\ {"current_speed", "wind_speed", "y_idx", "x_idx"} \subseteq DOMAIN ns
    /\ Len(ns["current_speed"].values) = Cardinality(Window)
    /\ Len(ns["wind_speed"].values) = Cardinality(Window)
    /\ \A t \in Window :
         LET y == ns["y_idx"]
             x == ns["x_idx"]
             d == Dataset(remote)
             u == Val(d, "u_eastward", t, SurfaceDepth, y, x)
             v == Val(d, "v_northward", t, SurfaceDepth, y, x)
             uw == Val(d, "Uwind_eastward", t, 0, y, x)
             vw == Val(d, "Vwind_northward", t, 0, y, x)
         IN /\ IsRoot(ns["current_speed"].values[t + 1], u * u + v * v)
            /\ IsRoot(ns["wind_speed"].values[t + 1], uw * uw + vw * vw)

(* C2: a failure (server unreachable at open, a named variable missing, an   *)
(* index out of range) is not caught: the script stops at the statement that *)
(* failed, no later statement runs and nothing is enabled afterwards.        *)
FailureStopsScript ==
  /\ error # "none" =>
       /\ status = "failed"
       /\ Len(trace) = pc /\ trace[Len(trace)] = pc
       /\ ~ENABLED Next
  /\ status = "failed" => error # "none"
  /\ (~remote.reachable /\ Started("open")) =>
       /\ error = "OSError" /\ ~Completed("open")
       /\ Handle(script) \notin DOMAIN ns /\ drawn = <<>>
  /\ (script = "timeseries" /\ Started("quickplot")
        /\ (remote.X <= HardX \/ remote.Y <= HardY \/ remote.D <= SurfaceDepth
              \/ "temperature" \notin remote.vars)) =>
       /\ error \in {"IndexError", "AttributeError"}
       /\ ~Completed("quickplot") /\ drawn = <<>>
  /\ (script = "example_thredds" /\ Started("v_plot")
        /\ (remote.T = 0 \/ remote.D <= SurfaceDepth
              \/ "v_northward" \notin remote.vars)) =>
       /\ error \in {"IndexError", "AttributeError"}
       /\ ~Completed("v_plot") /\ drawn = <<>>

FailureStopsScriptWitness ==
  /\ script = "timeseries" /\ status = "failed" /\ error = "IndexError"
  /\ TsProgram[pc] = "quickplot" /\ Completed("open")

(* C3: the statements run strictly in source order, one at a time and each   *)
(* at most once: the dataset is opened before any selection on it, the grid  *)
(* indices are computed before any selection that uses them, and each        *)
(* derived quantity is computed before the plot that draws it.               *)
StepsInSourceOrder ==
  /\ \A i \in DOMAIN trace : trace[i] = i
  /\ pc \in {Len(trace), Len(trace) + 1}
  /\ \A i \in DOMAIN trace :
       LET stmt == Program(script)[trace[i]]
           reads == IF script = "timeseries" THEN TsReads(stmt)
                    ELSE NkReads(stmt)
       IN Finished(i) =>
            /\ Handle(script) \in reads =>
                 \E j \in 1..(i - 1) : Program(script)[trace[j]] = "open"
            /\ "y_idx" \in reads \/ "x_idx" \in reads =>
                 \E j \in 1..(i - 1) : Program(script)[trace[j]] = "lookup"
            /\ "current_speed" \in reads =>
                 \E j \in 1..(i - 1) :
                   Program(script)[trace[j]] = "current_speed"
            /\ "wind_speed" \in reads =>
                 \E j \in 1..(i - 1) : Program(script)[trace[j]] = "wind_speed"
  /\ \A i \in DOMAIN drawn :
       drawn[i].stmt \in {"quickplot", "v_plot"} => Completed("open")

StepsInSourceOrderWitness ==
  /\ script = "example_thredds" /\ status = "done"
  /\ Len(trace) = Len(NkProgram) /\ DrawnBy("v_plot") # {}

(* C4: in timeseries.py, once the lookup statement has run on a dataset that *)
(* holds lon and lat, (y_idx, x_idx) is a (row, column) pair within the grid *)
(* and no grid point is closer to the target loc than that point.            *)
LookupNearest ==
  (script = "timeseries" /\ Started("lookup")
     /\ {"lon", "lat"} \subseteq remote.vars) =>
    /\ {"y_idx", "x_idx"} \subseteq DOMAIN ns
    /\ ns["y_idx"] \in 0..(remote.Y - 1)
    /\ ns["x_idx"] \in 0..(remote.X - 1)
    /\ \A y \in 0..(remote.Y - 1), x \in 0..(remote.X - 1) :
         Dist2(Dataset(remote), ns["y_idx"], ns["x_idx"], LocLon, LocLat)
           <= Dist2(Dataset(remote), y, x, LocLon, LocLat)

(* C5: the dataset is a read-only input: no statement changes the remote     *)
(* dataset, and once ds (or nk) is bound by the open statement it keeps the  *)
(* value it was opened with through every later statement.                   *)
DatasetReadOnly ==
  [][/\ remote' = remote
     /\ Handle(script) \in DOMAIN ns =>
          /\ Handle(script) \in DOMAIN ns'
          /\ ns'[Handle(script)] = ns[Handle(script)]
          /\ ns'[Handle(script)] = Dataset(remote)]_vars

DatasetReadOnlyWitness ==
  /\ script = "example_thredds" /\ Completed("v_plot") /\ remote.T > 1
  /\ "nk" \in DOMAIN ns /\ DrawnBy("v_plot") # {}

(* C6: in a sound environment each script runs to its last statement:        *)
(* whenever it has stopped, it has executed every statement, the final       *)
(* legend call of timeseries.py or plt.show() of example_thredds.py last.    *)
RunsToLastStep ==
  (EnvOk /\ Stopped) =>
    /\ status = "done"
    /\ Len(trace) = Len(Program(script))
    /\ Completed(IF script = "timeseries" THEN "speed_plot" ELSE "show")

(* C7: in timeseries.py every name the next statement reads is bound by an   *)
(* earlier statement, the module of the nearest-grid-point lookup included.  *)
NamesBound ==
  (script = "timeseries" /\ status = "running") =>
    TsReads(TsProgram[pc]) \subseteq DOMAIN ns

(* C8: in timeseries.py, once the script has stopped in a sound environment, *)
(* y_idx and x_idx have been assigned exactly once, by the lookup statement, *)
(* and the map marker, the temperature and salinity series and the title     *)
(* were all read at that (row y_idx, column x_idx).                          *)
IndicesAssignedOnce ==
  (script = "timeseries" /\ EnvOk /\ Stopped) =>
    /\ {"y_idx", "x_idx"} \subseteq DOMAIN ns
    /\ Cardinality({i \in DOMAIN trace :
                      /\ Finished(i)
                      /\ {"y_idx", "x_idx"} \cap TsWrites(TsProgram[trace[i]])
                           # {}}) = 1
    /\ Completed("lookup")
    /\ \A name \in {"map_marker", "temperature", "salinity", "ts_title"} :
         /\ DrawnBy(name) # {}
         /\ \A i \in DrawnBy(name) :
              drawn[i].y = ns["y_idx"] /\ drawn[i].x = ns["x_idx"]

(* C9: in timeseries.py, once the script has stopped in a sound environment, *)
(* temperature, salinity, current_speed and wind_speed each hold the time    *)
(* indices 0 .. min(100, T) - 1, at depth index 0 where there is a depth.    *)
SeriesWindow ==
  (script = "timeseries" /\ EnvOk /\ Stopped) =>
    /\ \A name \in {"quickplot", "temperature", "salinity"} :
         /\ DrawnBy(name) # {}
         /\ \A i \in DrawnBy(name) :
              /\ drawn[i].depth = 0
              /\ drawn[i].data.times = SliceIndices(0, SliceStop, remote.T)
              /\ Len(drawn[i].data.values) = Cardinality(Window)
    /\ \A name \in {"current_speed", "wind_speed"} :
         /\ name \in DOMAIN ns
         /\ ns[name].times = SliceIndices(0, SliceStop, remote.T)
         /\ Len(ns[name].values) = Cardinality(Window)

(* C10: in example_thredds.py the plotted northward current is the slice at  *)
(* the last time step and the surface: with T >= 1 the selection time=-1,    *)
(* depth=0 picks time index T-1 and depth index 0; with T = 0 it fails with  *)
(* an out-of-range index and nothing is plotted.                             *)
LastTimeSurface ==
  script = "example_thredds" =>
    /\ Completed("v_plot") =>
         /\ remote.T >= 1
         /\ DrawnBy("v_plot") # {}
         /\ \A i \in DrawnBy("v_plot") :
              /\ drawn[i].var = "v_northward"
              /\ drawn[i].time = remote.T - 1
              /\ drawn[i].depth = 0
    /\ (Started("v_plot") /\ remote.T = 0) =>
         /\ status = "failed" /\ error = "IndexError"
         /\ DrawnBy("v_plot") = {}
    /\ (Started("v_plot") /\ remote.T >= 1 /\ remote.D >= 1
          /\ "v_northward" \in remote.vars) => Completed("v_plot")

LastTimeSurfaceWitness ==
  /\ script = "example_thredds" /\ Completed("v_plot")
  /\ remote.T > 1 /\ DrawnBy("v_plot") # {}
  /\ status = "done"

====
